---- MODULE Spec2Model ----
(***************************************************************************)
(* Payroll Management System (src/main.py): employee directory, payslip    *)
(* ledger, pay computation and progressive tax.                            *)
(*                                                                         *)
(* Number representations (Python Decimal is exact; TLC integers are 32    *)
(* bit, so every value is held as an exact integer count of a unit):       *)
(*   - a REAL column of the employees table holds thousandths ("milli"),   *)
(*     so that to_decimal has digits to round away;                        *)
(*   - a Decimal quantized to 0.01 inside compute_pay is a count of cents; *)
(*     a percentage quantized to 0.01 is a count of hundredths of 1%;      *)
(*   - inside income_tax_annually, whose slab table reaches 999999999, a   *)
(*     Decimal is [u |-> whole units, f |-> ten-thousandths in 0..9999],   *)
(*     value u + f/10000 (f counts upward from u, also for negatives);     *)
(*   - a tax rate is a count of hundredths (Decimal('0.05') is 5).         *)
(* Python's None is the empty sequence, a present value x is <<x>>.        *)
(***************************************************************************)
EXTENDS Integers, Sequences, FiniteSets, TLC

VARIABLES
    employees,       \* rows of table employees (a set of records)
    emp_seq,         \* sqlite_sequence of employees.id (AUTOINCREMENT)
    payslips,        \* rows of table payslips, in insertion (id) order
    outcome,         \* what the last operation printed or raised
    ret,             \* what the last operation returned (None or a PayBreakdown)
    rows,            \* result set the last operation fetched when it was
                     \* export_payslips_csv (line 217), empty otherwise
    taxable_income,  \* argument of the latest income_tax_annually call
    tax,             \* value returned by the latest income_tax_annually call
    prev_income,     \* argument of the call before it (marginal comparison)
    prev_tax         \* value returned by the call before it

vars == <<employees, emp_seq, payslips, outcome, ret, rows,
          taxable_income, tax, prev_income, prev_tax>>

None == <<>>
Some(x) == <<x>>

(***************************************************************************)
(* Decimal rounding (decimal module): n/d rounded to an integer.           *)
(***************************************************************************)
\* ROUND_HALF_UP of the exact value w + r/d (0 <= r < d): ties go away from zero
quantize_half_up(w, r, d) ==
    IF 2 * r > d THEN w + 1
    ELSE IF 2 * r < d THEN w
    ELSE IF w >= 0 THEN w + 1 ELSE w

\* ROUND_HALF_EVEN (the default context rounding) of the exact value w + r/d
quantize_half_even(w, r, d) ==
    IF 2 * r > d THEN w + 1
    ELSE IF 2 * r < d THEN w
    ELSE IF w % 2 = 0 THEN w ELSE w + 1

\* to_decimal(x) of a stored REAL x (milli): cents, ROUND_HALF_UP
to_decimal(x) == quantize_half_up(x \div 10, x % 10, 10)

(***************************************************************************)
(* Decimals of the tax calculator: [u, f], value u + f/10000.              *)
(***************************************************************************)
Dec(u, f) == [u |-> u, f |-> f]
DecOfCents(c) == Dec(c \div 100, (c % 100) * 100)
DecLeq(a, b) == a.u < b.u \/ (a.u = b.u /\ a.f <= b.f)
DecMin(a, b) == IF DecLeq(a, b) THEN a ELSE b
DecAdd(a, b) == Dec(a.u + b.u + ((a.f + b.f) \div 10000), (a.f + b.f) % 10000)
DecSub(a, b) == Dec(a.u - b.u + ((a.f - b.f) \div 10000), (a.f - b.f) % 10000)
\* a * rate for a >= 0 with two fractional digits, rate in hundredths; exact
DecMulRate(a, rate) ==
    LET low == (a.u % 100) * rate * 100 + (a.f \div 100) * rate
    IN  Dec((a.u \div 100) * rate + (low \div 10000), low % 10000)

\* to_decimal(tax) on a tax-calculator Decimal: two fractional digits, ROUND_HALF_UP
to_decimal_tax(a) ==
    LET c == IF a.f % 100 > 50 \/ (a.f % 100 = 50 /\ a.u >= 0)
             THEN (a.f \div 100) + 1 ELSE a.f \div 100
    IN  IF c = 100 THEN Dec(a.u + 1, 0) ELSE Dec(a.u, c * 100)

(***************************************************************************)
(* Progressive tax (lines 115-136).                                        *)
(***************************************************************************)
PF_PERCENT == 12

TAX_SLABS_typo ==
    << [limit |-> Dec(250000, 0),    rate |-> 0],
       [limit |-> Dec(500000, 0),    rate |-> 5],
       [limit |-> Dec(1000000, 0),   rate |-> 2],
       [limit |-> Dec(999999999, 0), rate |-> 30] >>

TAX_SLABS ==
    << [limit |-> Dec(250000, 0),    rate |-> 0],
       [limit |-> Dec(500000, 0),    rate |-> 5],
       [limit |-> Dec(1000000, 0),   rate |-> 20],
       [limit |-> Dec(999999999, 0), rate |-> 30] >>

\* the whole income below the ceiling, not the part above the previous ceiling
slab_amount_retroactive(limit, prev_limit, income) == DecMin(limit, income)

\* line 128
slab_amount(limit, prev_limit, income) ==
    DecMin(DecSub(limit, prev_limit), DecSub(income, prev_limit))

\* the for loop of lines 127-135, from slab i on, with the loop's locals
RECURSIVE slab_loop(_, _, _, _)
slab_loop(i, acc, prev_limit, income) ==
    IF i > Len(TAX_SLABS) THEN acc
    ELSE LET limit == TAX_SLABS[i].limit
             rate  == TAX_SLABS[i].rate
             amt   == slab_amount(limit, prev_limit, income)
         IN  IF DecLeq(amt, Dec(0, 0))
             THEN slab_loop(i + 1, acc, limit, income)
             ELSE LET acc2 == DecAdd(acc, DecMulRate(amt, rate))
                  IN  IF DecLeq(income, limit) THEN acc2
                      ELSE slab_loop(i + 1, acc2, limit, income)

income_tax_annually(income) == to_decimal_tax(slab_loop(1, Dec(0, 0), Dec(0, 0), income))

(***************************************************************************)
(* Pay computation (lines 143-171). Amounts in cents.                      *)
(***************************************************************************)
standard_deduction == 5000000

\* (basic * to_decimal(pct) / Decimal('100')).quantize(Decimal('0.01')), lines 144-145:
\* basic in cents, pct a stored REAL (milli); the exact value is basic*p/10000 cents
percent_of_basic(basic, pct) ==
    LET p   == to_decimal(pct)
        low == (basic % 10000) * p
    IN  quantize_half_even((basic \div 10000) * p + (low \div 10000), low % 10000, 10000)

\* line 149
pf_of(basic) ==
    quantize_half_even((basic * PF_PERCENT) \div 100, (basic * PF_PERCENT) % 100, 100)

\* line 154 without the clamp
taxable_ann_unclamped(annual_gross) == annual_gross - standard_deduction

\* line 154
taxable_ann_of(annual_gross) ==
    IF annual_gross - standard_deduction > 0 THEN annual_gross - standard_deduction ELSE 0

\* line 156: annual_tax a tax-calculator Decimal with two fractional digits
monthly_tax_of(annual_tax) ==
    LET cents == annual_tax.u * 100 + (annual_tax.f \div 100)
    IN  quantize_half_even(cents \div 12, cents % 12, 12)

\* a sign slip in line 159
net_of_added(gross, total_deductions) == gross + total_deductions

\* line 159 (the operands have two fractional digits: quantize changes nothing)
net_of(gross, total_deductions) == gross - total_deductions

\* lines 143-171: the breakdown dict of an employees row
breakdown_of(row) ==
    LET basic        == to_decimal(row.basic)
        hra          == percent_of_basic(basic, row.hra_percent)
        da           == percent_of_basic(basic, row.da_percent)
        other_allow  == to_decimal(row.other_allowances)
        gross        == basic + hra + da + other_allow
        pf           == pf_of(basic)
        annual_gross == gross * 12
        taxable_ann  == taxable_ann_of(annual_gross)
        annual_tax   == income_tax_annually(DecOfCents(taxable_ann))
        monthly_tax  == monthly_tax_of(annual_tax)
        total_deductions == pf + monthly_tax
        net          == net_of(gross, total_deductions)
    IN  [basic |-> basic, hra |-> hra, da |-> da, other_allowances |-> other_allow,
         gross_salary |-> gross, pf |-> pf, tax |-> monthly_tax,
         total_deductions |-> total_deductions, net_salary |-> net]

\* the argument compute_pay hands to income_tax_annually (line 155)
taxable_ann_passed(row) ==
    LET basic == to_decimal(row.basic)
        gross == basic + percent_of_basic(basic, row.hra_percent)
                       + percent_of_basic(basic, row.da_percent)
                       + to_decimal(row.other_allowances)
    IN  DecOfCents(taxable_ann_of(gross * 12))

(***************************************************************************)
(* Bounds and the inputs the operations are tried with.                    *)
(***************************************************************************)
MaxEmployeeId == 2      \* successful INSERTs into employees
MaxPayslips   == 2      \* successful INSERTs into payslips
MaxDelta      == 2      \* whole units tried on either side of each TaxBases value

Codes == {"E1", "E2"}
CurrentMonth == "2024-06"   \* datetime.now().strftime('%Y-%m'), line 174
\* the month argument: left out, or given as the month the calls are made in
MonthArgs == {None, Some("2024-06")}

\* add_employee arguments after emp_code (REAL values in milli)
AddArgs ==
    { [name |-> "Ann", designation |-> "Dev", basic |-> 30000000,
       hra_percent |-> 20000, da_percent |-> 0, other_allowances |-> 0],
      [name |-> "Bob", designation |-> "Ops", basic |-> 12345000,
       hra_percent |-> 12500, da_percent |-> 5000, other_allowances |-> 1500000] }

\* update_employee keyword arguments: a function from the supplied keywords
\* to None or a value
NoKwargs == [k \in {} |-> None]
UpdateArgs ==
    { NoKwargs,
      [designation |-> None],
      [name |-> Some("Bob")],
      [name |-> None, designation |-> Some("Ops"), basic |-> Some(12345000),
       hra_percent |-> Some(12500), da_percent |-> Some(5000),
       other_allowances |-> Some(1500000)] }

\* stored profiles compute_pay is tried on (REAL values in milli)
BasicVals == {0, 50, 1000005, 2500000, 12345000, 30000000, 33333330, 100000000}
HraVals   == {0, 1000, 12500, 20000}
DaVals    == {0, 5000, 12345}
OtherVals == {0, 1005, 1500000}

\* taxable incomes income_tax_annually is tried on
TaxBases == {0, 250000, 382000, 500000, 1000000, 999999999}
TaxCents == {0, 10, 50, 99}
TaxInputs ==
    { x \in { Dec(b + d, c * 100) :
                b \in TaxBases, d \in (0 - MaxDelta)..MaxDelta, c \in TaxCents } : x.u >= 0 }

(***************************************************************************)
(* Employee Directory (lines 61-111).                                      *)
(***************************************************************************)
\* no UNIQUE constraint on emp_code
IntegrityError_never(emps, emp_code) == FALSE

\* emp_code TEXT UNIQUE (line 35): the INSERT of lines 64-66 raises
IntegrityError(emps, emp_code) == \E e \in emps : e.emp_code = emp_code

add_employee(emp_code, a) ==
    /\ IF IntegrityError(employees, emp_code)
       THEN /\ outcome' = "Error: emp_code must be unique."
            /\ UNCHANGED <<employees, emp_seq>>
       ELSE /\ emp_seq < MaxEmployeeId
            /\ employees' = employees \cup
                   { [id |-> emp_seq + 1, emp_code |-> emp_code, name |-> a.name,
                      designation |-> a.designation, basic |-> a.basic,
                      hra_percent |-> a.hra_percent, da_percent |-> a.da_percent,
                      other_allowances |-> a.other_allowances] }
            /\ emp_seq' = emp_seq + 1
            /\ outcome' = "Employee added."
    /\ ret' = None
    /\ rows' = <<>>
    /\ UNCHANGED <<payslips, taxable_income, tax, prev_income, prev_tax>>

\* lines 76-79: the keywords given with a value that is not None
fields_of(kwargs) == {k \in DOMAIN kwargs : kwargs[k] # None}

\* one row after SET k = v for every field of kwargs
set_fields(e, kwargs) ==
    [k \in DOMAIN e |-> IF k \in fields_of(kwargs) THEN kwargs[k][1] ELSE e[k]]

\* UPDATE employees SET ... without the WHERE clause
update_rows_all(emps, emp_code, kwargs) == {set_fields(e, kwargs) : e \in emps}

\* UPDATE employees SET ... WHERE emp_code = ? (lines 84-85)
update_rows(emps, emp_code, kwargs) ==
    {IF e.emp_code = emp_code THEN set_fields(e, kwargs) ELSE e : e \in emps}

update_employee(emp_code, kwargs) ==
    /\ IF fields_of(kwargs) = {}
       THEN /\ outcome' = "No updates provided."
            /\ UNCHANGED employees
       ELSE /\ employees' = update_rows(employees, emp_code, kwargs)
            /\ outcome' = "Employee updated."
    /\ ret' = None
    /\ rows' = <<>>
    /\ UNCHANGED <<emp_seq, payslips, taxable_income, tax, prev_income, prev_tax>>

delete_employee(emp_code) ==
    /\ employees' = {e \in employees : e.emp_code # emp_code}
    /\ outcome' = "Employee deleted (if existed)."
    /\ ret' = None
    /\ rows' = <<>>
    /\ UNCHANGED <<emp_seq, payslips, taxable_income, tax, prev_income, prev_tax>>

\* SELECT ... FROM employees with the WHERE clause lost: any row
get_employee_any(emps, emp_code) ==
    IF emps = {} THEN None ELSE Some(CHOOSE e \in emps : TRUE)

\* lines 107-111: fetchone() of the rows with that emp_code
get_employee_by_code(emps, emp_code) ==
    IF \E e \in emps : e.emp_code = emp_code
    THEN Some(CHOOSE e \in emps : e.emp_code = emp_code)
    ELSE None

(***************************************************************************)
(* Payslip Ledger and compute_pay (lines 138-189).                         *)
(***************************************************************************)
\* INSERT OR REPLACE keyed on (emp_id, month)
insert_or_replace_payslip(slips, p) ==
    IF \E i \in 1..Len(slips) : slips[i].emp_id = p.emp_id /\ slips[i].month = p.month
    THEN [i \in 1..Len(slips) |->
             IF slips[i].emp_id = p.emp_id /\ slips[i].month = p.month
             THEN [p EXCEPT !.id = i] ELSE slips[i]]
    ELSE Append(slips, p)

\* the INSERT of lines 178-180
insert_payslip(slips, p) == Append(slips, p)

\* lines 183-189: the dict compute_pay returns
returned_dict(row, month, b) ==
    [emp_code |-> row.emp_code, name |-> row.name, designation |-> row.designation,
     month |-> month, basic |-> b.basic, hra |-> b.hra, da |-> b.da,
     other_allowances |-> b.other_allowances, gross_salary |-> b.gross_salary,
     pf |-> b.pf, tax |-> b.tax, total_deductions |-> b.total_deductions,
     net_salary |-> b.net_salary]

\* Successive datetime.now() calls are taken to return increasing values:
\* generated_on is the number of the call.
compute_pay(emp_code, month_arg) ==
    LET found == get_employee_by_code(employees, emp_code)
    IN  IF found = None
        THEN /\ outcome' = "ValueError: Employee not found"
             /\ ret' = None
             /\ rows' = <<>>
             /\ UNCHANGED <<employees, emp_seq, payslips, taxable_income, tax,
                            prev_income, prev_tax>>
        ELSE LET row       == found[1]
                 breakdown == breakdown_of(row)
                 month     == IF month_arg = None THEN CurrentMonth ELSE month_arg[1]
                 passed    == taxable_ann_passed(row)
             IN  /\ Len(payslips) < MaxPayslips
                 /\ taxable_income' = Some(passed)
                 /\ tax' = Some(income_tax_annually(passed))
                 /\ payslips' = insert_payslip(payslips,
                        [id |-> Len(payslips) + 1, emp_id |-> row.id, month |-> month,
                         generated_on |-> Len(payslips) + 1,
                         gross_salary |-> breakdown.gross_salary,
                         total_deductions |-> breakdown.total_deductions,
                         net_salary |-> breakdown.net_salary,
                         breakdown |-> breakdown])
                 /\ ret' = Some(returned_dict(row, month, breakdown))
                 /\ outcome' = "PayBreakdown returned"
                 /\ rows' = <<>>
                 /\ UNCHANGED <<employees, emp_seq, prev_income, prev_tax>>

(***************************************************************************)
(* Tabular export (lines 214-226).                                         *)
(***************************************************************************)
\* FROM payslips p JOIN employees e ON e.id = p.emp_id (line 216)
joined_rows(slips, emps) ==
    { [payslip_id |-> slips[i].id, emp_code |-> e.emp_code, name |-> e.name,
       month |-> slips[i].month, gross_salary |-> slips[i].gross_salary,
       total_deductions |-> slips[i].total_deductions,
       net_salary |-> slips[i].net_salary, generated_on |-> slips[i].generated_on] :
      <<i, e>> \in {ie \in (1..Len(slips)) \X emps : ie[2].id = slips[ie[1]].emp_id} }

\* ORDER BY p.generated_on
RECURSIVE order_by_generated_on(_)
order_by_generated_on(S) ==
    IF S = {} THEN <<>>
    ELSE LET first == CHOOSE r \in S : \A q \in S : r.generated_on <= q.generated_on
         IN  <<first>> \o order_by_generated_on(S \ {first})

export_payslips_csv ==
    /\ rows' = order_by_generated_on(joined_rows(payslips, employees))
    /\ outcome' = IF rows' = <<>> THEN "No payslips to export." ELSE "Exported payslips"
    /\ ret' = None
    /\ UNCHANGED <<employees, emp_seq, payslips, taxable_income, tax, prev_income, prev_tax>>

(***************************************************************************)
(* The system: the menu's operations on a fresh database (init_db).        *)
(***************************************************************************)
Init ==
    /\ employees = {}
    /\ emp_seq = 0
    /\ payslips = <<>>
    /\ outcome = "init_db"
    /\ ret = None
    /\ rows = <<>>
    /\ taxable_income = None
    /\ tax = None
    /\ prev_income = None
    /\ prev_tax = None

AddEmployee == \E c \in Codes, a \in AddArgs : add_employee(c, a)
UpdateEmployee == \E c \in Codes, k \in UpdateArgs : update_employee(c, k)
DeleteEmployee == \E c \in Codes : delete_employee(c)
ComputePay == \E c \in Codes, m \in MonthArgs : compute_pay(c, m)
ExportPayslipsCsv == export_payslips_csv

Next == AddEmployee \/ UpdateEmployee \/ DeleteEmployee \/ ComputePay \/ ExportPayslipsCsv

Spec == Init /\ [][Next]_vars

(***************************************************************************)
(* compute_pay on every stored profile of BasicVals x HraVals x DaVals x   *)
(* OtherVals: the directory holds one employee, added with that profile.   *)
(***************************************************************************)
InitPay ==
    /\ \E b \in BasicVals, h \in HraVals, d \in DaVals, o \in OtherVals :
           employees = { [id |-> 1, emp_code |-> "E1", name |-> "Ann",
                          designation |-> "Dev", basic |-> b, hra_percent |-> h,
                          da_percent |-> d, other_allowances |-> o] }
    /\ emp_seq = 1
    /\ payslips = <<>>
    /\ outcome = "Employee added."
    /\ ret = None
    /\ rows = <<>>
    /\ taxable_income = None
    /\ tax = None
    /\ prev_income = None
    /\ prev_tax = None

NextPay == ComputePay

SpecPay == InitPay /\ [][NextPay]_vars

(***************************************************************************)
(* income_tax_annually on every income of TaxInputs, and then on the       *)
(* income one whole unit higher.                                           *)
(***************************************************************************)
InitTax ==
    /\ employees = {}
    /\ emp_seq = 0
    /\ payslips = <<>>
    /\ outcome = "init_db"
    /\ ret = None
    /\ rows = <<>>
    /\ taxable_income \in {Some(x) : x \in TaxInputs}
    /\ tax = None
    /\ prev_income = None
    /\ prev_tax = None

CallIncomeTax ==
    /\ tax = None
    /\ tax' = Some(income_tax_annually(taxable_income[1]))
    /\ UNCHANGED <<employees, emp_seq, payslips, outcome, ret, rows,
                   taxable_income, prev_income, prev_tax>>

CallIncomeTaxOneUnitUp ==
    /\ tax # None
    /\ prev_income = None
    /\ prev_income' = taxable_income
    /\ prev_tax' = tax
    /\ taxable_income' = Some(DecAdd(taxable_income[1], Dec(1, 0)))
    /\ tax' = Some(income_tax_annually(DecAdd(taxable_income[1], Dec(1, 0))))
    /\ UNCHANGED <<employees, emp_seq, payslips, outcome, ret, rows>>

NextTax == CallIncomeTax \/ CallIncomeTaxOneUnitUp

SpecTax == InitTax /\ [][NextTax]_vars

(***************************************************************************)
(* Properties.                                                             *)
(***************************************************************************)
NotFound == "ValueError: Employee not found"
Returned == "PayBreakdown returned"
Duplicate == "Error: emp_code must be unique."

\* the stored profile of the employee compute_pay last returned a breakdown for
\* (under SpecPay the directory never changes)
ProfileOf(r) == CHOOSE e \in employees : e.emp_code = r.emp_code

NonNegative(e) ==
    e.basic >= 0 /\ e.hra_percent >= 0 /\ e.da_percent >= 0 /\ e.other_allowances >= 0

\* C1: every PayBreakdown compute_pay returns satisfies, in cents,
\* gross_salary = basic + hra + da + other_allowances,
\* total_deductions = pf + tax and net_salary = gross_salary - total_deductions.
C1_BreakdownIdentities ==
    ret # None =>
        LET r == ret[1]
        IN  /\ r.gross_salary = r.basic + r.hra + r.da + r.other_allowances
            /\ r.total_deductions = r.pf + r.tax
            /\ r.net_salary = r.gross_salary - r.total_deductions

\* C1 witness: a breakdown with a rounded allowance, tax and pf all non-zero
C1_Witness ==
    /\ ret # None
    /\ ret[1].basic = 3333333
    /\ ret[1].hra = 416667
    /\ ret[1].tax > 0
    /\ ret[1].pf > 0

\* C2: compute_pay with a code that is not in the directory raises the
\* not-found error, returns nothing and leaves ledger and directory as they were.
C2_NotFoundChangesNothing ==
    [][\A c \in Codes, m \in MonthArgs :
          (compute_pay(c, m) /\ ~(\E e \in employees : e.emp_code = c)) =>
              /\ outcome' = NotFound
              /\ ret' = None
              /\ payslips' = payslips
              /\ employees' = employees]_vars

\* C2 witness: not-found raised for a code that was added, paid and deleted
C2_Witness ==
    /\ outcome = NotFound
    /\ employees = {}
    /\ emp_seq > 0
    /\ Len(payslips) > 0

\* the exact value basic * to_decimal(pct) / 100 rounded half up to cents
HalfUpPercent(basic, pct) ==
    LET p   == to_decimal(pct)
        low == (basic % 10000) * p
    IN  quantize_half_up((basic \div 10000) * p + (low \div 10000), low % 10000, 10000)

\* C3 (as claimed): in every returned breakdown hra, da, pf, the monthly tax,
\* total_deductions and net are the exact values of their formulas rounded
\* half up to 2 fractional digits.
C3_EveryStageRoundsHalfUp ==
    (ret # None /\ tax # None) =>
        LET r      == ret[1]
            e      == ProfileOf(r)
            annual == tax[1].u * 100 + (tax[1].f \div 100)
        IN  /\ r.hra = HalfUpPercent(r.basic, e.hra_percent)
            /\ r.da = HalfUpPercent(r.basic, e.da_percent)
            /\ r.pf = quantize_half_up((r.basic * 12) \div 100, (r.basic * 12) % 100, 100)
            /\ r.tax = quantize_half_up(annual \div 12, annual % 12, 12)
            /\ r.total_deductions = r.pf + r.tax
            /\ r.net_salary = r.gross_salary - r.total_deductions

\* the part of income t lying between lo and hi
Portion(t, lo, hi) ==
    LET top == DecMin(t, hi)
    IN  IF DecLeq(top, lo) THEN Dec(0, 0) ELSE DecSub(top, lo)

\* the reference progressive tax of the claim: 250000 at 0%, 500000 at 5%,
\* 1000000 at 20%, 999999999 at 30%, rounded once at the end
ReferenceTax(t) ==
    to_decimal_tax(
        DecAdd(DecAdd(DecMulRate(Portion(t, Dec(0, 0), Dec(250000, 0)), 0),
                      DecMulRate(Portion(t, Dec(250000, 0), Dec(500000, 0)), 5)),
               DecAdd(DecMulRate(Portion(t, Dec(500000, 0), Dec(1000000, 0)), 20),
                      DecMulRate(Portion(t, Dec(1000000, 0), Dec(999999999, 0)), 30))))

\* C4: for every taxable income t >= 0, income_tax_annually(t) is the
\* reference progressive tax rounded once, and income_tax_annually(0) = 0.
C4_TaxIsReferenceProgressiveTax ==
    tax # None =>
        /\ tax[1] = ReferenceTax(taxable_income[1])
        /\ taxable_income[1] = Dec(0, 0) => tax[1] = Dec(0, 0)

\* C4 witness: an income in the top slab with a half-cent tie in the exact tax
\* (1000001.50: 12500 + 100000 + 0.45 = 112500.45; 250000.10 gives 0.005)
C4_Witness ==
    /\ tax # None
    /\ taxable_income = Some(Dec(250000, 1000))
    /\ tax = Some(Dec(0, 100))

\* prev_income is ceiling number i and the latest call was for one unit more
AtCeilingPlusOne(i) ==
    /\ prev_income = Some(TAX_SLABS[i].limit)
    /\ prev_tax # None
    /\ tax # None
    /\ taxable_income = Some(DecAdd(TAX_SLABS[i].limit, Dec(1, 0)))

\* C5 (as claimed): for every slab ceiling c of TAX_SLABS there is a slab
\* following c, and income_tax_annually(c + 1) - income_tax_annually(c) is
\* 1 * that slab's rate.
C5_EveryCeilingHasNextRate ==
    \A i \in 1..Len(TAX_SLABS) :
        AtCeilingPlusOne(i) =>
            /\ i + 1 \in DOMAIN TAX_SLABS
            /\ DecSub(tax[1], prev_tax[1]) = Dec(0, TAX_SLABS[i + 1].rate * 100)

\* C5 (amended): for every slab ceiling c of TAX_SLABS but the last the
\* difference is 1 * the rate of the slab following c; at the last ceiling,
\* 999999999, no slab follows and the tax does not change.
C5_MarginalUnitAtNextRate ==
    \A i \in 1..Len(TAX_SLABS) :
        AtCeilingPlusOne(i) =>
            DecSub(tax[1], prev_tax[1]) =
                IF i < Len(TAX_SLABS) THEN Dec(0, TAX_SLABS[i + 1].rate * 100)
                ELSE Dec(0, 0)

\* C5 witness: the tax at 500000 and at 500001 have both been computed
C5_Witness == AtCeilingPlusOne(2)

\* C6 (as claimed): export_payslips_csv outputs one data row per ledger row,
\* in generation order.
C6_ExportHasOneRowPerPayslip ==
    outcome \in {"Exported payslips", "No payslips to export."} =>
        /\ Len(rows) = Len(payslips)
        /\ \A i \in 1..Len(rows) : rows[i].payslip_id = payslips[i].id

\* C7: no step changes or removes a row already in the ledger, and every
\* compute_pay that returns a breakdown appends exactly one row.
C7_LedgerAppendOnly ==
    [][/\ Len(payslips') >= Len(payslips)
       /\ SubSeq(payslips', 1, Len(payslips)) = payslips
       /\ outcome' = Returned =>
              /\ Len(payslips') = Len(payslips) + 1
              /\ ret' # None
              /\ payslips'[Len(payslips')].breakdown.net_salary = ret'[1].net_salary
              /\ payslips'[Len(payslips')].month = ret'[1].month]_vars

\* C7 witness: two records of the same employee and month
C7_Witness ==
    /\ Len(payslips) = 2
    /\ payslips[1].emp_id = payslips[2].emp_id
    /\ payslips[1].month = payslips[2].month

\* C8: update_employee sets exactly the keywords given with a non-None value
\* on the rows whose emp_code matches; other fields, other rows and the ledger
\* stay; with no such keyword the directory stays and the outcome is
\* 'No updates provided.', otherwise 'Employee updated.'.
C8_UpdateTouchesOnlySuppliedFields ==
    [][\A c \in Codes, k \in UpdateArgs :
          update_employee(c, k) =>
              LET given == {f \in DOMAIN k : k[f] # None}
              IN  /\ payslips' = payslips
                  /\ \A e \in employees : e.emp_code # c => e \in employees'
                  /\ Cardinality(employees') = Cardinality(employees)
                  /\ \A e \in employees : e.emp_code = c =>
                         \E e2 \in employees' :
                             /\ e2.id = e.id
                             /\ \A f \in DOMAIN e :
                                    e2[f] = IF f \in given THEN k[f][1] ELSE e[f]
                  /\ given = {} => (employees' = employees /\ outcome' = "No updates provided.")
                  /\ given # {} => outcome' = "Employee updated."]_vars

\* C8 witness: after an update that changed only the name of one of two
\* employees, with a payslip in the ledger
C8_Witness ==
    /\ outcome = "Employee updated."
    /\ Len(payslips) > 0
    /\ \E e1, e2 \in employees :
           /\ e1.name = "Bob" /\ e1.designation = "Dev" /\ e1.basic = 30000000
           /\ e2.name = "Ann"

UniqueCodes == \A e1, e2 \in employees : e1.emp_code = e2.emp_code => e1 = e2

\* C9: employee codes stay unique, and add_employee with a code already in
\* the directory reports the duplicate and changes neither directory nor ledger.
C9_CodesUnique ==
    [][/\ UniqueCodes'
       /\ \A c \in Codes, a \in AddArgs :
              (add_employee(c, a) /\ \E e \in employees : e.emp_code = c) =>
                  /\ outcome' = Duplicate
                  /\ employees' = employees
                  /\ payslips' = payslips]_vars

\* C9 witness: a rejected add while the ledger holds a payslip
C9_Witness ==
    /\ outcome = Duplicate
    /\ employees # {}
    /\ Len(payslips) > 0

\* C10: for a profile with no negative field compute_pay passes a taxable
\* amount >= 0 to income_tax_annually and returns tax >= 0 and
\* 0 <= net_salary <= gross_salary; for the all-zero profile gross, pf, tax
\* and net are 0.
C10_NonNegativePay ==
    (ret # None /\ NonNegative(ProfileOf(ret[1]))) =>
        LET r == ret[1]
            e == ProfileOf(r)
        IN  /\ DecLeq(Dec(0, 0), taxable_income[1])
            /\ DecLeq(Dec(0, 0), tax[1])
            /\ r.tax >= 0
            /\ 0 <= r.net_salary
            /\ r.net_salary <= r.gross_salary
            /\ (e.basic = 0 /\ e.hra_percent = 0 /\ e.da_percent = 0
                    /\ e.other_allowances = 0) =>
                   (r.gross_salary = 0 /\ r.pf = 0 /\ r.tax = 0 /\ r.net_salary = 0)

\* C10 witness: a non-negative profile whose annual gross is below the
\* standard deduction, so that the clamp of line 154 acts
C10_Witness ==
    /\ ret # None
    /\ NonNegative(ProfileOf(ret[1]))
    /\ ret[1].gross_salary > 0
    /\ ret[1].gross_salary * 12 < standard_deduction
    /\ taxable_income = Some(Dec(0, 0))

====
